---- MODULE Spec2Model ----
(***************************************************************************)
(* Model of pipeline.py: the chunked ingestion of a csv / parquet file     *)
(* into a database table (detect_format, read_data_chunked, run).          *)
(*                                                                         *)
(* A locator (url) is a sequence of one-character strings.  A DataFrame is *)
(* a sequence of records, a record being the number of its row in the      *)
(* source.  The database is reduced to the one table of the target name.   *)
(***************************************************************************)
EXTENDS Integers, Sequences, FiniteSets

VARIABLES url, override, chunksize, source, prior,
          pc, file_format, engine, df_iter, batches, df_chunk, first,
          table, ops, output

vars == <<url, override, chunksize, source, prior,
          pc, file_format, engine, df_iter, batches, df_chunk, first,
          table, ops, output>>

\* ------------------------------------------------------------- bounds
MaxR == 4
MaxChunk == 3

\* ------------------------------------------------------------- inputs
None == "None"

Uppers == <<"A","B","C","D","E","F","G","H","I","J","K","L","M",
            "N","O","P","Q","R","S","T","U","V","W","X","Y","Z">>
Lowers == <<"a","b","c","d","e","f","g","h","i","j","k","l","m",
            "n","o","p","q","r","s","t","u","v","w","x","y","z">>

\* the values of --url the model runs on
Locators ==
  { <<"d",".","p","a","r","q","u","e","t">>,
    <<"D",".","P","A","R","Q","U","E","T">>,
    <<"d",".","P","a","r","q","u","e","t">>,
    <<".","p","a","r","q","u","e","t">>,
    <<"d",".","c","s","v">>,
    <<"d",".","C","S","V">>,
    <<"d",".","c","s","v",".","g","z">>,
    <<"d",".","C","s","v",".","G","Z">>,
    <<"d",".","c","s","v",".","z","i","p">>,
    <<"d",".","p","a","r","q","u","e","t",".","b","a","k">>,
    <<"d","p","a","r","q","u","e","t">>,
    <<"d",".","g","z">>,
    <<"d",".","t","x","t">>,
    <<>> }

\* the values of --format: absent, or one of click.Choice(["csv", "parquet"])
Overrides == {None, "csv", "parquet"}

\* the values of --chunksize (type=int: zero and negative numbers are accepted)
ChunkSizes == -1 .. MaxChunk

\* the records of a source of n records, in source order
Records(n) == [i \in 1..n |-> i]

SourceSchema == "trips"
LegacySchema == "legacy"
NoTable == [exists |-> FALSE, schema |-> None, rows |-> <<>>]

\* the table of the target name before the run: absent, the rows of an
\* earlier complete or failed run of the same load, or an unrelated table
PriorTables(n) ==
  {NoTable}
  \cup {[exists |-> TRUE, schema |-> SourceSchema, rows |-> Records(k)] : k \in 0..n}
  \cup {[exists |-> TRUE, schema |-> LegacySchema, rows |-> <<101, 102>>]}

\* ------------------------------------------------------------- detect_format
Min(a, b) == IF a < b THEN a ELSE b
Max(a, b) == IF a > b THEN a ELSE b

LowerChar(c) ==
  IF \E j \in 1..Len(Uppers) : Uppers[j] = c
  THEN Lowers[CHOOSE j \in 1..Len(Uppers) : Uppers[j] = c]
  ELSE c

\* str.lower()
Lower(s) == [i \in 1..Len(s) |-> LowerChar(s[i])]

\* str.endswith(suffix)
EndsWith(s, suffix) ==
  /\ Len(s) >= Len(suffix)
  /\ SubSeq(s, Len(s) - Len(suffix) + 1, Len(s)) = suffix

DotParquet == <<".","p","a","r","q","u","e","t">>
DotCsvGz == <<".","c","s","v",".","g","z">>
DotCsv == <<".","c","s","v">>

detect_format_nolower(u) ==
  IF EndsWith(u, DotParquet) THEN "parquet"
  ELSE IF EndsWith(u, DotCsvGz) \/ EndsWith(u, DotCsv) THEN "csv"
  ELSE None

detect_format(u) ==
  LET url_lower == Lower(u)
  IN  IF EndsWith(url_lower, DotParquet) THEN "parquet"
      ELSE IF EndsWith(url_lower, DotCsvGz) \/ EndsWith(url_lower, DotCsv) THEN "csv"
      ELSE None

\* ------------------------------------------------------------- read_data_chunked
\* list(range(start, stop, step)) for step # 0
RECURSIVE PyRange(_, _, _)
PyRange(start, stop, step) ==
  IF (step > 0 /\ start >= stop) \/ (step < 0 /\ start <= stop) \/ step = 0
  THEN <<>>
  ELSE <<start>> \o PyRange(start + step, stop, step)

\* a slice bound as Python clamps it to 0..len
SliceBound(i, n) == IF i < 0 THEN Max(n + i, 0) ELSE Min(i, n)

\* df.iloc[a:b]
Iloc(df, a, b) == SubSeq(df, SliceBound(a, Len(df)) + 1, SliceBound(b, Len(df)))

ParquetChunks_short(df, size) ==
  LET starts == PyRange(0, Len(df) - 1, size)
  IN  [i \in 1..Len(starts) |-> Iloc(df, starts[i], starts[i] + size)]

\* the parquet branch: slices of the decoded table at range(0, len(df), chunksize)
ParquetChunks(df, size) ==
  LET starts == PyRange(0, Len(df), size)
  IN  [i \in 1..Len(starts) |-> Iloc(df, starts[i], starts[i] + size)]

RECURSIVE CsvRest(_, _)
CsvRest(rows, size) ==
  IF rows = <<>> THEN <<>>
  ELSE <<SubSeq(rows, 1, Min(size, Len(rows)))>>
       \o CsvRest(SubSeq(rows, Min(size, Len(rows)) + 1, Len(rows)), size)

\* the csv branch: pd.read_csv(iterator=True, chunksize=size), size >= 1;
\* a file with a header and no record gives one frame of zero rows
CsvChunks(rows, size) ==
  IF rows = <<>> THEN << <<>> >> ELSE CsvRest(rows, size)

\* the generator's outcome: whether its first next() raises ValueError,
\* and otherwise the frames it yields
read_data_chunked(fmt, rows, size) ==
  IF fmt = "csv"
  THEN [raises |-> size < 1,
        chunks |-> IF size < 1 THEN <<>> ELSE CsvChunks(rows, size)]
  ELSE IF fmt = "parquet"
  THEN [raises |-> size = 0, chunks |-> ParquetChunks(rows, size)]
  ELSE [raises |-> TRUE, chunks |-> <<>>]

Reader == read_data_chunked(file_format, source, chunksize)

\* ------------------------------------------------------------- DataFrame.to_sql
\* df.head(n)
Head_(df, n) == SubSeq(df, 1, Min(n, Len(df)))

\* frame.to_sql(name, con, if_exists): one transaction
ToSql(t, frame, if_exists) ==
  IF if_exists = "replace" \/ ~t.exists
  THEN [exists |-> TRUE, schema |-> SourceSchema, rows |-> frame]
  ELSE [t EXCEPT !.rows = @ \o frame]

Msg(kind, nums) == [kind |-> kind, nums |-> nums]

\* ------------------------------------------------------------- run
Init ==
  /\ url \in Locators
  /\ override \in Overrides
  /\ chunksize \in ChunkSizes
  /\ \E n \in 0..MaxR : source = Records(n) /\ prior \in PriorTables(n)
  /\ table = prior
  /\ pc = "start"
  /\ file_format = override
  /\ engine = FALSE
  /\ df_iter = "none"
  /\ batches = <<>>
  /\ df_chunk = <<>>
  /\ first = TRUE
  /\ ops = <<>>
  /\ output = <<>>

Inputs == <<url, override, chunksize, source, prior>>

ResolveFormat_late ==
  /\ pc = "start"
  /\ IF file_format = None
     THEN LET d == detect_format(url)
          IN  /\ file_format' = d
              /\ engine' = TRUE
              /\ IF d = None
                 THEN pc' = "usage_error" /\ output' = output
                 ELSE pc' = "resolved" /\ output' = Append(output, Msg("Detected format", <<>>))
     ELSE pc' = "resolved" /\ UNCHANGED <<file_format, output, engine>>
  /\ UNCHANGED <<Inputs, df_iter, batches, df_chunk, first, table, ops>>

\* lines 135-147: detect or validate the format
ResolveFormat ==
  /\ pc = "start"
  /\ IF file_format = None
     THEN LET d == detect_format(url)
          IN  /\ file_format' = d
              /\ IF d = None
                 THEN pc' = "usage_error" /\ output' = output
                 ELSE pc' = "resolved" /\ output' = Append(output, Msg("Detected format", <<>>))
     ELSE pc' = "resolved" /\ UNCHANGED <<file_format, output>>
  /\ UNCHANGED <<Inputs, engine, df_iter, batches, df_chunk, first, table, ops>>

\* lines 149-151
CreateEngine ==
  /\ pc = "resolved"
  /\ engine' = TRUE
  /\ pc' = "engine"
  /\ UNCHANGED <<Inputs, file_format, df_iter, batches, df_chunk, first, table, ops, output>>

CallReader_create ==
  /\ pc = "engine"
  /\ df_iter' = "created"
  /\ first' = TRUE
  /\ table' = ToSql(table, <<>>, "replace")
  /\ ops' = Append(ops, [op |-> "replace", rows |-> <<>>])
  /\ pc' = "loop"
  /\ UNCHANGED <<Inputs, file_format, engine, batches, df_chunk, output>>

\* lines 153-157: the generator object is made, its body has not run
CallReader ==
  /\ pc = "engine"
  /\ df_iter' = "created"
  /\ first' = TRUE
  /\ pc' = "loop"
  /\ UNCHANGED <<Inputs, file_format, engine, batches, df_chunk, table, ops, output>>

\* line 159: the loop asks the generator for the next frame and gets one
NextChunk ==
  /\ pc = "loop"
  /\ ~Reader.raises
  /\ Len(batches) < Len(Reader.chunks)
  /\ df_chunk' = Reader.chunks[Len(batches) + 1]
  /\ batches' = Append(batches, Reader.chunks[Len(batches) + 1])
  /\ df_iter' = "running"
  /\ pc' = "body"
  /\ UNCHANGED <<Inputs, file_format, engine, first, table, ops, output>>

ReaderExhausted_create ==
  /\ pc = "loop"
  /\ ~Reader.raises
  /\ Len(batches) = Len(Reader.chunks)
  /\ df_iter' = "closed"
  /\ table' = IF first THEN ToSql(table, <<>>, "replace") ELSE table
  /\ output' = Append(output, Msg("Finished loading", <<>>))
  /\ pc' = "done"
  /\ UNCHANGED <<Inputs, file_format, engine, batches, df_chunk, first, ops>>

\* lines 159, 168: the generator is exhausted, the loop ends
ReaderExhausted ==
  /\ pc = "loop"
  /\ ~Reader.raises
  /\ Len(batches) = Len(Reader.chunks)
  /\ df_iter' = "closed"
  /\ output' = Append(output, Msg("Finished loading", <<>>))
  /\ pc' = "done"
  /\ UNCHANGED <<Inputs, file_format, engine, batches, df_chunk, first, table, ops>>

\* lines 69-82 raising inside next(): ValueError for a chunk size the branch
\* rejects, or an I/O / decode error (read_parquet decodes in the first
\* next() only, read_csv decodes in every next())
ReaderRaises ==
  /\ pc = "loop"
  /\ \/ Reader.raises /\ batches = <<>>
     \/ ~Reader.raises /\ (file_format = "csv" \/ batches = <<>>)
  /\ df_iter' = "closed"
  /\ pc' = "failed"
  /\ UNCHANGED <<Inputs, file_format, engine, batches, df_chunk, first, table, ops, output>>

CreateTable_every ==
  /\ pc = "body"
  /\ IF ops = <<>> THEN first ELSE ops[Len(ops)].op = "append"
  /\ table' = ToSql(table, Head_(df_chunk, 0), "replace")
  /\ ops' = Append(ops, [op |-> "replace", rows |-> Head_(df_chunk, 0)])
  /\ output' = Append(output, Msg("Table created", <<>>))
  /\ first' = FALSE
  /\ UNCHANGED <<Inputs, pc, file_format, engine, df_iter, batches, df_chunk>>

\* lines 160-163
CreateTable ==
  /\ pc = "body"
  /\ first
  /\ table' = ToSql(table, Head_(df_chunk, 0), "replace")
  /\ ops' = Append(ops, [op |-> "replace", rows |-> Head_(df_chunk, 0)])
  /\ output' = Append(output, Msg("Table created", <<>>))
  /\ first' = FALSE
  /\ UNCHANGED <<Inputs, pc, file_format, engine, df_iter, batches, df_chunk>>

AppendChunk_size ==
  /\ pc = "body"
  /\ ~first
  /\ table' = ToSql(table, df_chunk, "append")
  /\ ops' = Append(ops, [op |-> "append", rows |-> df_chunk])
  /\ output' = Append(output, Msg("Inserted", <<chunksize>>))
  /\ pc' = "loop"
  /\ UNCHANGED <<Inputs, file_format, engine, df_iter, batches, df_chunk, first>>

\* lines 165-166
AppendChunk ==
  /\ pc = "body"
  /\ ~first
  /\ table' = ToSql(table, df_chunk, "append")
  /\ ops' = Append(ops, [op |-> "append", rows |-> df_chunk])
  /\ output' = Append(output, Msg("Inserted", <<Len(df_chunk)>>))
  /\ pc' = "loop"
  /\ UNCHANGED <<Inputs, file_format, engine, df_iter, batches, df_chunk, first>>

WriteRaises_partial ==
  /\ pc = "body"
  /\ pc' = "failed"
  /\ IF first THEN table' = table
     ELSE table' = ToSql(table, Head_(df_chunk, Len(df_chunk) - 1), "append")
  /\ UNCHANGED <<Inputs, file_format, engine, df_iter, batches, df_chunk, first, ops, output>>

\* lines 161, 165: to_sql raises; its transaction is rolled back
WriteRaises ==
  /\ pc = "body"
  /\ pc' = "failed"
  /\ UNCHANGED <<Inputs, file_format, engine, df_iter, batches, df_chunk, first, table, ops, output>>

Next ==
  \/ ResolveFormat
  \/ CreateEngine
  \/ CallReader
  \/ NextChunk
  \/ ReaderExhausted
  \/ ReaderRaises
  \/ CreateTable
  \/ AppendChunk
  \/ WriteRaises

Spec == Init /\ [][Next]_vars

\* ------------------------------------------------------------- properties
RECURSIVE Flatten(_)
Flatten(ss) == IF ss = <<>> THEN <<>> ELSE Head(ss) \o Flatten(Tail(ss))

RECURSIVE SumSeq(_)
SumSeq(ns) == IF ns = <<>> THEN 0 ELSE Head(ns) + SumSeq(Tail(ns))

CeilDiv(r, c) == (r + c - 1) \div c

Lens(ss) == [i \in 1..Len(ss) |-> Len(ss[i])]

\* the same letter, whatever the case
SameCI(c, d) ==
  \/ c = d
  \/ \E j \in 1..Len(Uppers) : {c, d} = {Uppers[j], Lowers[j]}

\* u ends in suffix, compared case-insensitively
EndsWithCI(u, suffix) ==
  \E k \in 0..Len(u) :
    /\ Len(u) - k = Len(suffix)
    /\ \A i \in 1..Len(suffix) : SameCI(u[k + i], suffix[i])

SuffixFormat(u) ==
  IF EndsWithCI(u, DotParquet) THEN "parquet"
  ELSE IF EndsWithCI(u, DotCsv) \/ EndsWithCI(u, DotCsvGz) THEN "csv"
  ELSE None

\* the append operations issued so far, and the frames they wrote
Appends == SelectSeq(ops, LAMBDA o : o.op = "append")
Replaces == SelectSeq(ops, LAMBDA o : o.op = "replace")
AppendedRows == [i \in 1..Len(Appends) |-> Appends[i].rows]

\* the counts printed by the "Inserted: N" lines, in order
InsertedMsgs == SelectSeq(output, LAMBDA m : m.kind = "Inserted")
InsertedCounts == [i \in 1..Len(InsertedMsgs) |-> InsertedMsgs[i].nums[1]]

\* C1: on the parquet path with chunksize C >= 1 and R records, a reader run
\* to exhaustion has yielded exactly ceil(R/C) batches, in source order, each
\* of 1..C records, all but the last of exactly C, their counts summing to R.
C1_ParquetBatches ==
  (pc = "done" /\ file_format = "parquet" /\ chunksize >= 1) =>
    /\ Len(batches) = CeilDiv(Len(source), chunksize)
    /\ \A i \in 1..Len(batches) :
         /\ Len(batches[i]) >= 1
         /\ Len(batches[i]) <= chunksize
         /\ i < Len(batches) => Len(batches[i]) = chunksize
    /\ Flatten(batches) = source
    /\ SumSeq(Lens(batches)) = Len(source)

C1_Witness ==
  /\ pc = "done" /\ file_format = "parquet"
  /\ chunksize = 2 /\ Len(source) = 3
  /\ Lens(batches) = <<2, 1>>

\* C2: a run that reaches "Finished loading" on a source of R >= 1 records,
\* whatever chunk size the command line accepted, leaves the table existing
\* and holding exactly the source's records in source order.
C2_FinishedMeansLoaded ==
  (pc = "done" /\ Len(source) >= 1) =>
    (table.exists /\ table.rows = source)

\* C3: a finished run on a source of R >= 1 records against a table left by
\* an earlier complete or failed run of the same load ends with exactly R rows.
C3_RerunRowCount ==
  (pc = "done" /\ Len(source) >= 1 /\ prior.exists /\ prior.schema = SourceSchema) =>
    Len(table.rows) = Len(source)

\* C4: the writer issues create-or-replace exactly once, for the first batch,
\* with zero rows and before any append; then every batch yielded, the first
\* included, is appended exactly once in the reader's order; the writer is
\* awaiting its first batch exactly while nothing has been issued.
C4_CreateOnceThenAppends ==
  /\ first <=> ops = <<>>
  /\ batches = <<>> => ops = <<>>
  /\ ops # <<>> =>
       /\ ops[1] = [op |-> "replace", rows |-> <<>>]
       /\ Len(Replaces) = 1
       /\ Len(Appends) <= Len(batches)
       /\ AppendedRows = SubSeq(batches, 1, Len(Appends))
  /\ (pc = "done" /\ batches # <<>>) =>
       (ops # <<>> /\ AppendedRows = batches)

C4_Witness ==
  /\ pc = "done"
  /\ Len(batches) = 3
  /\ Len(ops) = 4

\* C5 as stated: once the batches are exhausted the load reports the total
\* number of records written, the sum of the appended batches' counts.
C5_ReportsTotal ==
  pc = "done" =>
    output[Len(output)].nums = <<SumSeq(Lens(AppendedRows))>>

\* C5 amended: once the batches are exhausted the completion message carries
\* no count; the counts reported are the "Inserted: N" lines, one per appended
\* batch in order, and they sum to the number of records written.
C5_InsertedCountsSumToWritten ==
  pc = "done" =>
    /\ output[Len(output)] = Msg("Finished loading", <<>>)
    /\ InsertedCounts = Lens(AppendedRows)
    /\ batches # <<>> => SumSeq(InsertedCounts) = Len(table.rows)
    /\ \A i \in 1..Len(output) : output[i].kind # "Inserted" => output[i].nums = <<>>

C5_Witness ==
  /\ pc = "done"
  /\ InsertedCounts = <<2, 2>>
  /\ Len(table.rows) = 4

\* C6 as stated: a reader that yields zero batches leads to zero creates,
\* zero appends, DONE, and a reported total of 0.
C6_EmptyReportsZero ==
  (pc = "done" /\ batches = <<>>) =>
    (ops = <<>> /\ output[Len(output)].nums = <<0>>)

\* C6 amended: a reader that yields zero batches leads to zero creates, zero
\* appends and DONE, and no count is reported at all: no "Inserted" line, and
\* a completion message without a number.
C6_EmptyNoCreateNoCount ==
  (df_iter = "closed" /\ pc # "failed" /\ batches = <<>>) =>
    /\ pc = "done"
    /\ Len(Replaces) = 0
    /\ Len(Appends) = 0
    /\ first
    /\ \A i \in 1..Len(output) : output[i].nums = <<>>

C6_Witness ==
  /\ pc = "done"
  /\ source = <<>> /\ file_format = "parquet"
  /\ batches = <<>> /\ ops = <<>>

\* C7: once resolved, the format is the override when one was given, and
\* otherwise the one the locator's suffix names case-insensitively: parquet
\* for ".parquet", csv for ".csv" and ".csv.gz", unresolved for all others.
C7_FormatResolution ==
  pc # "start" =>
    /\ override # None => file_format = override
    /\ override = None => file_format = SuffixFormat(url)

C7_Witness ==
  /\ pc # "start" /\ override = None
  /\ url = <<"d",".","C","s","v",".","G","Z">>
  /\ file_format = "csv"

\* C8: with an unrecognized suffix and no override the run stops at the usage
\* error: no engine, no reader, no create-or-replace, no append, and the
\* table as it was before the run.
C8_UsageErrorBeforeIO ==
  (override = None /\ SuffixFormat(url) = None) =>
    /\ pc \in {"start", "usage_error"}
    /\ ~engine
    /\ df_iter = "none"
    /\ batches = <<>>
    /\ ops = <<>>
    /\ table = prior

C8_Witness ==
  /\ pc = "usage_error"
  /\ url = <<"d",".","c","s","v",".","z","i","p">>
  /\ prior.exists /\ table = prior

\* C9: once the first batch's create-or-replace is done, in every state,
\* failed ones included, the table holds the first k batches for some k, a
\* prefix of the source; a batch is requested only when every batch yielded
\* before has been appended, so at most one is in flight.
C9_WholeBatchPrefix ==
  /\ ops # <<>> =>
       /\ \E k \in 0..Len(batches) : table.rows = Flatten(SubSeq(batches, 1, k))
       /\ table.rows = SubSeq(source, 1, Len(table.rows))
  /\ Len(batches) - Len(Appends) \in {0, 1}
  /\ pc = "loop" => Len(batches) = Len(Appends)

C9_Witness ==
  /\ pc = "failed"
  /\ Len(source) = 4 /\ chunksize = 2
  /\ Len(batches) = 2 /\ Len(Appends) = 1
  /\ table.rows = <<1, 2>>

\* C10: while the reader has yielded no batch nothing is written: the table
\* keeps the schema and rows it had before the run; and such a run, when the
\* reader ends, ends with the completion message.
C10_ZeroBatchesNoWrite ==
  batches = <<>> =>
    /\ table = prior
    /\ ops = <<>>
    /\ pc = "done" => output[Len(output)].kind = "Finished loading"

C10_Witness ==
  /\ pc = "done" /\ batches = <<>>
  /\ prior.exists /\ prior.schema = LegacySchema
  /\ table.rows = <<101, 102>>

====
